---- MODULE Spec2Model ----
(***************************************************************************)
(* Model of golucene's storage core (src/core/util/bit.go):                *)
(*   - LockImpl.ObtainWithin, the polling lock acquisition;                *)
(*   - DirectoryImpl and its lock factory (LockFactoryImpl/FSLockFactory); *)
(*   - simpleIndexInputSlicer and SlicedIndexInput.                        *)
(* Each component has its own specification (SpecLock, SpecLockFair,       *)
(* SpecDir, SpecSlice) over the common variables; a specification leaves   *)
(* the other components in their initial state.                            *)
(***************************************************************************)
EXTENDS Integers, Sequences, FiniteSets, TLC

(***************************************************************************)
(* Bounds of the model.                                                    *)
(***************************************************************************)
\* Timeouts passed to ObtainWithin are the multiples of half a polling
\* interval up to MaxHalfPolls halves (5 halves = 2500 ms), plus the
\* negative values -1 (wait forever), -2 and -1500.
MaxHalfPolls == 5

\* Length in bytes of the file the slicer's base reader is opened on.
BaseLen == 4

\* Operations followed on the slicer and its slices in one behaviour.
MaxOps == 4

\* Most bytes asked of one read of a slice, and the longest window opened.
MaxLen == 2

\* Largest value of the numeric fields of the FlushInfo and MergeInfo
\* values passed to the IOContext factories.
MaxInfo == 3

\* The integers -MaxSmall..MaxSmall are among the 64-bit words tried.
MaxSmall == 4

\* Longest slice of words passed to pop_array.
MaxWords == 2

(***************************************************************************)
(* Lock: constants.                                                        *)
(***************************************************************************)
LOCK_POOL_INTERVAL == 1000

LOCK_OBTAIN_WAIT_FOREVER == -1

\* Go's nil.
Nil == "nil"

\* The errors a lock backend's Obtain may return besides nil.
BackendErrs == {"e1", "e2"}

\* An error value: nil, an error returned by the backend (cause names it),
\* or the error errors.New builds at the timeout, whose text contains the
\* failure reason when there is one (cause) and nothing else of the backend.
ErrNil == [kind |-> "nil", cause |-> Nil]

BackendErr(e) == IF e = Nil THEN ErrNil ELSE [kind |-> "backend", cause |-> e]

\* Mutant of TimeoutErr: the timeout branch returns without setting err.
TimeoutErr_Unset(reason) == ErrNil

TimeoutErr(reason) == [kind |-> "timeout", cause |-> reason]

\* Go's integer division truncates toward zero (TLA+'s \div floors).
GoDiv(a, b) == IF a >= 0 THEN a \div b ELSE -((-a) \div b)

\* What one call of the backend's Obtain returns: (ok, err).
Outcomes == [ok : BOOLEAN, err : BackendErrs \cup {Nil}]

\* The timeouts tried.
Timeouts ==
    {-1500, -2, LOCK_OBTAIN_WAIT_FOREVER}
        \cup {h * (LOCK_POOL_INTERVAL \div 2) : h \in 0..MaxHalfPolls}

\* The most Obtain calls one ObtainWithin with a timeout in Timeouts makes;
\* a wait-forever call is followed for as many calls.
MaxPolls == (MaxHalfPolls * (LOCK_POOL_INTERVAL \div 2)) \div LOCK_POOL_INTERVAL + 1

\* The backend's behaviour during one ObtainWithin: what its 1st, 2nd, ...
\* Obtain call returns.
Plans == [1..MaxPolls -> Outcomes]

VARIABLES
    lpc,            \* position of the ObtainWithin call: idle, loop, done, panicked
    timeout,        \* lockWaitTimeout of the call
    plan,           \* the backend's answers to the call's Obtain calls
    nCalls,         \* Obtain calls made by the call so far
    sleepCount,     \* the loop's sleepCount
    slept,          \* milliseconds slept by the call so far
    locked,         \* the named result locked
    err,            \* the named result err
    failureReason,  \* LockImpl.failureReason
    lpanic,         \* the panic the call ended with, or Nil
    isOpen,         \* DirectoryImpl.IsOpen
    lockFactory,    \* DirectoryImpl.lockFactory: a factory or Nil
    factories,      \* per factory: lockPrefix (LockFactoryImpl), lockDir (FSLockFactory)
    dres,           \* the last directory or factory operation and how it ended
    readers,        \* cursor of each base reader; reader 1 is the slicer's base
    slices,         \* the SlicedIndexInputs made so far
    sres,           \* the last read through a slice and what it returned
    nOps,           \* operations done on the slicer and its slices
    ioc,            \* the last IOContext factory call and what it gave
    bres            \* the last bit-utility call and what it returned

lockVars ==
    <<lpc, timeout, plan, nCalls, sleepCount, slept, locked, err,
      failureReason, lpanic>>

dirVars == <<isOpen, lockFactory, factories, dres>>

sliceVars == <<readers, slices, sres, nOps>>

pureVars == <<ioc, bres>>

vars == <<lockVars, dirVars, sliceVars, pureVars>>

InitLock ==
    /\ lpc = "idle"
    /\ timeout = 0
    /\ plan = [i \in 1..MaxPolls |-> [ok |-> FALSE, err |-> Nil]]
    /\ nCalls = 0
    /\ sleepCount = 0
    /\ slept = 0
    /\ locked = FALSE
    /\ err = ErrNil
    /\ failureReason = Nil
    /\ lpanic = Nil

\* assert2(ok, msg): panics when ok is false.
assert2(ok) == ok

\* The precondition ObtainWithin asserts on its timeout.
TimeoutValid(t) == assert2(t >= 0 \/ t = LOCK_OBTAIN_WAIT_FOREVER)

\* Mutant of maxSleepCount: the quotient rounded up.
maxSleepCount_RoundUp(t) == GoDiv(t + LOCK_POOL_INTERVAL - 1, LOCK_POOL_INTERVAL)

maxSleepCount(t) == GoDiv(t, LOCK_POOL_INTERVAL)

\* Mutant of DeadlinePassed: the wait-forever test left out.
DeadlinePassed_NoForever(t, sc) == sc >= maxSleepCount(t)

\* The loop's exit test on the deadline.
DeadlinePassed(t, sc) ==
    t # LOCK_OBTAIN_WAIT_FOREVER /\ sc >= maxSleepCount(t)

\* The text of the timeout error: the failure reason is appended when set.
TimeoutReason(fr) == IF fr # Nil THEN fr ELSE Nil

\* ObtainWithin up to the loop (one call is followed per behaviour, on a
\* fresh lock): clear failureReason, first Obtain, return its
\* error if any, assert the timeout, and return at once when locked.
ObtainWithin(t, p) ==
    /\ lpc = "idle"
    /\ timeout' = t
    /\ plan' = p
    /\ failureReason' = Nil
    /\ nCalls' = 1
    /\ locked' = p[1].ok
    /\ err' = BackendErr(p[1].err)
    /\ sleepCount' = 0
    /\ slept' = 0
    /\ IF p[1].err # Nil
         THEN lpc' = "done" /\ lpanic' = Nil
         ELSE IF ~TimeoutValid(t)
                THEN lpc' = "panicked" /\ lpanic' = "invalid-argument"
                ELSE /\ lpc' = IF p[1].ok THEN "done" ELSE "loop"
                     /\ lpanic' = Nil
    /\ UNCHANGED <<dirVars, sliceVars, pureVars>>

\* One pass of the loop that ends in the timeout.
ObtainTimeout ==
    /\ lpc = "loop"
    /\ DeadlinePassed(timeout, sleepCount)
    /\ err' = TimeoutErr(TimeoutReason(failureReason))
    /\ lpc' = "done"
    /\ UNCHANGED <<timeout, plan, nCalls, sleepCount, slept, locked,
                   failureReason, lpanic>>
    /\ UNCHANGED <<dirVars, sliceVars, pureVars>>

\* One pass of the loop that sleeps and polls: sleepCount++, Sleep, then the
\* loop's post statement locked, err = Obtain() and its test !locked.
ObtainPoll ==
    /\ lpc = "loop"
    /\ ~DeadlinePassed(timeout, sleepCount)
    /\ nCalls < MaxPolls
    /\ sleepCount' = sleepCount + 1
    /\ slept' = slept + LOCK_POOL_INTERVAL
    /\ nCalls' = nCalls + 1
    /\ locked' = plan[nCalls + 1].ok
    /\ err' = BackendErr(plan[nCalls + 1].err)
    /\ lpc' = IF plan[nCalls + 1].ok THEN "done" ELSE "loop"
    /\ UNCHANGED <<timeout, plan, failureReason, lpanic>>
    /\ UNCHANGED <<dirVars, sliceVars, pureVars>>

NextLock ==
    \/ \E t \in Timeouts, p \in Plans : ObtainWithin(t, p)
    \/ ObtainTimeout
    \/ ObtainPoll

(***************************************************************************)
(* Directory and lock factories.                                           *)
(***************************************************************************)
\* The lock factories of the model, each an FSLockFactory.
FactoryIds == {"f1", "f2"}

\* Values passed to setLockDir.
LockDirs == {"", "a", "b"}

\* A formatted string is the sequence of its parts; <<>> is the empty string.
InitDir ==
    /\ isOpen = TRUE
    /\ lockFactory = Nil
    /\ factories = [f \in FactoryIds |-> [lockPrefix |-> <<>>, lockDir |-> ""]]
    /\ dres = [op |-> "NewDirectoryImpl", arg |-> Nil, wasOpen |-> TRUE,
               outcome |-> "ok", opens |-> 0]

\* assert(ok): panics when ok is false.
assert(ok) == ok

\* FSLockFactory.String().
FSLockFactoryString(fac) == <<"FSLockFactory@", fac.lockDir>>

\* DirectoryImpl.String(): "Directory lockFactory=" and the factory as %v
\* prints it.
DirectoryString(lf, facs) ==
    <<"Directory lockFactory=">>
        \o (IF lf = Nil THEN <<"<nil>">> ELSE FSLockFactoryString(facs[lf]))

\* DirectoryImpl.LockID(): the directory formatted with %v, which uses its
\* String method.
LockIDOf(lf, facs) == DirectoryString(lf, facs)

LockID == LockIDOf(lockFactory, factories)

\* DirectoryImpl.LockFactory().
LockFactory == lockFactory

\* LockFactoryImpl.LockPrefix().
LockPrefix(f) == factories[f].lockPrefix

\* LockFactoryImpl.SetLockPrefix(prefix).
SetLockPrefix(facs, f, prefix) == [facs EXCEPT ![f].lockPrefix = prefix]

\* The guard of FSLockFactory.setLockDir: the lock directory counts as set
\* when it is not the empty string.
LockDirIsSet(fac) == fac.lockDir # ""

DirResult(op, arg, outcome) ==
    [op |-> op, arg |-> arg, wasOpen |-> isOpen, outcome |-> outcome, opens |-> 0]

\* DirectoryImpl.MakeLock: delegates to the factory; a nil factory is a nil
\* dereference.
MakeLock ==
    /\ dres' = DirResult("MakeLock", Nil,
                         IF lockFactory = Nil THEN "panic:nil-dereference"
                                              ELSE "factory.Make")
    /\ UNCHANGED <<isOpen, lockFactory, factories>>
    /\ UNCHANGED <<lockVars, sliceVars, pureVars>>

\* DirectoryImpl.ClearLock: delegates to the factory when there is one.
ClearLock ==
    /\ dres' = DirResult("ClearLock", Nil,
                         IF lockFactory # Nil THEN "factory.Clear" ELSE "nil")
    /\ UNCHANGED <<isOpen, lockFactory, factories>>
    /\ UNCHANGED <<lockVars, sliceVars, pureVars>>

\* DirectoryImpl.SetLockFactory.
SetLockFactory(f) ==
    /\ IF ~assert(f # Nil)
         THEN /\ dres' = DirResult("SetLockFactory", f, "panic:assert fail")
              /\ UNCHANGED <<lockFactory, factories>>
         ELSE /\ lockFactory' = f
              /\ factories' = SetLockPrefix(factories, f, LockIDOf(f, factories))
              /\ dres' = DirResult("SetLockFactory", f, "ok")
    /\ UNCHANGED isOpen
    /\ UNCHANGED <<lockVars, sliceVars, pureVars>>

\* DirectoryImpl.CreateSlicer: its first statement panics.
CreateSlicer ==
    /\ dres' = DirResult("CreateSlicer", Nil, "panic:Should be overrided, I guess")
    /\ UNCHANGED <<isOpen, lockFactory, factories>>
    /\ UNCHANGED <<lockVars, sliceVars, pureVars>>

\* DirectoryImpl.EnsureOpen.
EnsureOpen ==
    /\ dres' = DirResult("EnsureOpen", Nil,
                         IF ~isOpen THEN "panic:this Directory is closed" ELSE "ok")
    /\ UNCHANGED <<isOpen, lockFactory, factories>>
    /\ UNCHANGED <<lockVars, sliceVars, pureVars>>

\* Close of the backend that embeds DirectoryImpl: clears IsOpen.
Close ==
    /\ isOpen' = FALSE
    /\ dres' = DirResult("Close", Nil, "ok")
    /\ UNCHANGED <<lockFactory, factories>>
    /\ UNCHANGED <<lockVars, sliceVars, pureVars>>

\* FSLockFactory.setLockDir.
setLockDir(f, dir) ==
    /\ IF LockDirIsSet(factories[f])
         THEN /\ dres' = DirResult("setLockDir", f, "panic:only once")
              /\ UNCHANGED factories
         ELSE /\ factories' = [factories EXCEPT ![f].lockDir = dir]
              /\ dres' = DirResult("setLockDir", f, "ok")
    /\ UNCHANGED <<isOpen, lockFactory>>
    /\ UNCHANGED <<lockVars, sliceVars, pureVars>>

NextDir ==
    \/ MakeLock
    \/ ClearLock
    \/ \E f \in FactoryIds \cup {Nil} : SetLockFactory(f)
    \/ CreateSlicer
    \/ EnsureOpen
    \/ Close
    \/ \E f \in FactoryIds, dir \in LockDirs : setLockDir(f, dir)

(***************************************************************************)
(* simpleIndexInputSlicer and SlicedIndexInput.                            *)
(***************************************************************************)
\* The byte at position i of the file: the bytes are 0, 1, 2, ...
FileByte(i) == i % 256

\* Most slices made in one behaviour.
MaxSlices == MaxOps - 2

\* The windows openSlice is called with; the last offset's windows of
\* length 2 end past the end of the file.
Windows == {<<o, l>> : o \in 0..(BaseLen - 1), l \in 1..MaxLen}

InitSlice ==
    /\ readers = <<0>>
    /\ slices = <<>>
    /\ sres = [slice |-> 0, via |-> 0, n |-> 0, start |-> 0, viaStart |-> 0,
               outcome |-> "none", bytes |-> <<>>, baseCalls |-> 0,
               basePos |-> 0]
    /\ nOps = 0

\* BufferedIndexInput.FilePointer().
FilePointer(sl, s) == sl[s].fp

\* SlicedIndexInput.Length().
Length(sl, s) == sl[s].length

\* The base reader's Seek(pos).
BaseSeek(rd, b, pos) == [rd EXCEPT ![b] = pos]

\* The base reader's ReadBytesBuffered(buf, false), len(buf) = n: the bytes
\* at its cursor, which it advances; past the end of the file it fails.
BaseReadBytes(rd, b, n) ==
    IF rd[b] + n > BaseLen
      THEN [outcome |-> "base-error", bytes |-> <<>>, readers |-> rd, baseCalls |-> 1]
      ELSE [outcome |-> "ok",
            bytes |-> [i \in 1..n |-> FileByte(rd[b] + i - 1)],
            readers |-> [rd EXCEPT ![b] = @ + n],
            baseCalls |-> 1]

\* The end-of-file test of readInternal.
PastEOF(s, start, n) == start + n > s.length

\* Mutant of SliceBasePos: the window's offset left out.
SliceBasePos_NoOffset(s, start) == start

\* The position readInternal seeks the base reader to.
SliceBasePos(s, start) == s.fileOffset + start

\* Mutant of readInternal: the base reader is read where its cursor is,
\* without the seek.
readInternal_NoSeek(sl, rd, h, n) ==
    IF PastEOF(sl[h], FilePointer(sl, h), n)
      THEN [outcome |-> "eof", bytes |-> <<>>, readers |-> rd, baseCalls |-> 0]
      ELSE BaseReadBytes(rd, sl[h].base, n)

\* SlicedIndexInput.readInternal(buf), len(buf) = n, on slice h.
readInternal(sl, rd, h, n) ==
    LET start == FilePointer(sl, h)
    IN  IF PastEOF(sl[h], start, n)
          THEN [outcome |-> "eof", bytes |-> <<>>, readers |-> rd, baseCalls |-> 0]
          ELSE BaseReadBytes(BaseSeek(rd, sl[h].base, SliceBasePos(sl[h], start)),
                             sl[h].base, n)

\* newSlicedIndexInputBySize: the new slice's buffered input has the slice
\* itself as its SeekReader (hook) and starts at position 0.
newSlicedIndexInput(self, base, fileOffset, length) ==
    [fileOffset |-> fileOffset, length |-> length, fp |-> 0, base |-> base,
     hook |-> self]

\* simpleIndexInputSlicer.openFullSlice: the slicer's base reader itself.
openFullSlice == 1

\* simpleIndexInputSlicer.openSlice: a slice over the slicer's own base.
openSlice(offset, length) ==
    /\ nOps < MaxOps
    /\ Len(slices) < MaxSlices
    /\ slices' = Append(slices,
                        newSlicedIndexInput(Len(slices) + 1, openFullSlice,
                                            offset, length))
    /\ nOps' = nOps + 1
    /\ UNCHANGED <<readers, sres>>
    /\ UNCHANGED <<lockVars, dirVars, pureVars>>

\* The SeekReader of BufferedIndexInput.Clone()'s result: Clone cannot know
\* the SlicedIndexInput its result will be embedded in, so the hook is the
\* original's (copied) or nil (0, a fresh struct).
BufferedCloneHooks(sl, s) == {sl[s].hook, 0}

\* SlicedIndexInput.Clone(): the cloned buffered input (same position), a
\* clone of the base reader (a new reader at the base's position), the same
\* fileOffset and length.  The clone's SeekReader is left as
\* BufferedIndexInput.Clone() made it.
Clone(s, hook) ==
    /\ nOps < MaxOps
    /\ Len(slices) < MaxSlices
    /\ readers' = Append(readers, readers[slices[s].base])
    /\ slices' = Append(slices,
                        [fileOffset |-> slices[s].fileOffset,
                         length |-> slices[s].length,
                         fp |-> FilePointer(slices, s),
                         base |-> Len(readers) + 1,
                         hook |-> hook])
    /\ nOps' = nOps + 1
    /\ UNCHANGED sres
    /\ UNCHANGED <<lockVars, dirVars, pureVars>>

\* A read of n bytes through slice s's buffered input: it calls readInternal
\* of its SeekReader and, when that succeeds, advances its own position.
ReadBytes(s, n) ==
    /\ nOps < MaxOps
    /\ nOps' = nOps + 1
    /\ LET h == slices[s].hook
       IN  IF h = 0
             THEN /\ sres' = [slice |-> s, via |-> 0, n |-> n,
                              start |-> FilePointer(slices, s), viaStart |-> 0,
                              outcome |-> "panic:nil-dereference",
                              bytes |-> <<>>, baseCalls |-> 0,
                              basePos |-> 0]
                  /\ UNCHANGED <<readers, slices>>
             ELSE LET r == readInternal(slices, readers, h, n)
                  IN  /\ sres' = [slice |-> s, via |-> h, n |-> n,
                                  start |-> FilePointer(slices, s),
                                  viaStart |-> FilePointer(slices, h),
                                  outcome |-> r.outcome, bytes |-> r.bytes,
                                  baseCalls |-> r.baseCalls,
                                  basePos |-> readers[slices[h].base]]
                      /\ readers' = r.readers
                      /\ slices' = IF r.outcome = "ok"
                                     THEN [slices EXCEPT ![s].fp = @ + n]
                                     ELSE slices
    /\ UNCHANGED <<lockVars, dirVars, pureVars>>

\* Seek(pos) on slice s: moves its position; seekInternal does nothing.
Seek(s, pos) ==
    /\ nOps < MaxOps
    /\ nOps' = nOps + 1
    /\ slices' = [slices EXCEPT ![s].fp = pos]
    /\ UNCHANGED <<readers, sres>>
    /\ UNCHANGED <<lockVars, dirVars, pureVars>>

\* A read of n bytes through the reader openFullSlice returns: it moves the
\* cursor of the base reader the slices share.
FullSliceRead(n) ==
    /\ nOps < MaxOps
    /\ nOps' = nOps + 1
    /\ readers' = BaseReadBytes(readers, openFullSlice, n).readers
    /\ UNCHANGED <<slices, sres>>
    /\ UNCHANGED <<lockVars, dirVars, pureVars>>

NextSlice ==
    \/ \E w \in Windows : openSlice(w[1], w[2])
    \/ \E n \in 1..MaxLen : FullSliceRead(n)
    \/ \E s \in 1..Len(slices) : \E h \in BufferedCloneHooks(slices, s) : Clone(s, h)
    \/ \E s \in 1..Len(slices), n \in 1..MaxLen : ReadBytes(s, n)
    \/ \E s \in 1..Len(slices), pos \in 0..MaxLen : Seek(s, pos)

(***************************************************************************)
(* IOContext.                                                              *)
(***************************************************************************)
IO_CONTEXT_TYPE_MERGE == 1

IO_CONTEXT_TYPE_READ == 2

IO_CONTEXT_TYPE_FLUSH == 3

IO_CONTEXT_TYPE_DEFAULT == 4

\* A pointer is <<>> (nil) or <<v>> (a pointer to the struct value v).
NilPtr == <<>>

\* IOContextType is an integer type: the values passed to
\* NewIOContextFromType include its zero value and one past the last kind.
IOContextTypes == 0..(IO_CONTEXT_TYPE_DEFAULT + 1)

\* The *FlushInfo arguments.
FlushInfos ==
    {NilPtr} \cup
    {<<fi>> : fi \in [NumDocs : 0..MaxInfo, EstimatedSegmentSize : 0..MaxInfo]}

\* The *MergeInfo arguments.
MergeInfos ==
    {NilPtr} \cup
    {<<mi>> : mi \in [TotalDocCount : 0..MaxInfo,
                      EstimatedMergeBytes : 0..MaxInfo,
                      IsExternal : BOOLEAN,
                      MergeMaxNumSegments : (-1)..MaxInfo]}

\* An IOContext value; the fields a struct literal leaves out are zero.
IOContext(context, mergeInfo, flushInfo, readOnce) ==
    [context |-> context, MergeInfo |-> mergeInfo, FlushInfo |-> flushInfo,
     readOnce |-> readOnce]

\* What a factory call gives: a panic, or the context it returns.
Panics(msg) == [panic |-> msg, ctx |-> <<>>]

Returns(c) == [panic |-> Nil, ctx |-> <<c>>]

NewIOContextForFlush(flushInfo) ==
    IF ~assert(flushInfo # NilPtr)
      THEN Panics("assert fail")
      ELSE Returns(IOContext(IO_CONTEXT_TYPE_FLUSH, NilPtr, flushInfo, FALSE))

\* Mutant of NewIOContextFromType: the FLUSH kind is not refused.
NewIOContextFromType_FlushAllowed(context) ==
    IF ~assert2(context # IO_CONTEXT_TYPE_MERGE)
      THEN Panics("Use NewIOContextForMerge() to create a MERGE IOContext")
      ELSE Returns(IOContext(context, NilPtr, NilPtr, FALSE))

NewIOContextFromType(context) ==
    IF ~assert2(context # IO_CONTEXT_TYPE_MERGE)
      THEN Panics("Use NewIOContextForMerge() to create a MERGE IOContext")
      ELSE IF ~assert2(context # IO_CONTEXT_TYPE_FLUSH)
             THEN Panics("Use NewIOContextForFlush() to create a FLUSH IOContext")
             ELSE Returns(IOContext(context, NilPtr, NilPtr, FALSE))

NewIOContextBool(readOnce) ==
    Returns(IOContext(IO_CONTEXT_TYPE_READ, NilPtr, NilPtr, readOnce))

NewIOContextForMerge(mergeInfo) ==
    IF ~assert2(mergeInfo # NilPtr)
      THEN Panics("MergeInfo must not be nil if context is MERGE")
      ELSE Returns(IOContext(IO_CONTEXT_TYPE_MERGE, mergeInfo, NilPtr, FALSE))

\* The three package-level contexts.
IO_CONTEXT_DEFAULT == NewIOContextFromType(IO_CONTEXT_TYPE_DEFAULT).ctx[1]

IO_CONTEXT_READONCE == NewIOContextBool(TRUE).ctx[1]

IO_CONTEXT_READ == NewIOContextBool(FALSE).ctx[1]

InitIOC ==
    ioc = [fn |-> "none", arg |-> <<>>, panic |-> Nil, ctx |-> <<>>]

IOCResult(fn, arg, r) == [fn |-> fn, arg |-> arg, panic |-> r.panic, ctx |-> r.ctx]

CallForFlush(flushInfo) ==
    /\ ioc' = IOCResult("NewIOContextForFlush", flushInfo,
                        NewIOContextForFlush(flushInfo))
    /\ UNCHANGED <<lockVars, dirVars, sliceVars, bres>>

CallFromType(context) ==
    /\ ioc' = IOCResult("NewIOContextFromType", context,
                        NewIOContextFromType(context))
    /\ UNCHANGED <<lockVars, dirVars, sliceVars, bres>>

CallBool(readOnce) ==
    /\ ioc' = IOCResult("NewIOContextBool", readOnce, NewIOContextBool(readOnce))
    /\ UNCHANGED <<lockVars, dirVars, sliceVars, bres>>

CallForMerge(mergeInfo) ==
    /\ ioc' = IOCResult("NewIOContextForMerge", mergeInfo,
                        NewIOContextForMerge(mergeInfo))
    /\ UNCHANGED <<lockVars, dirVars, sliceVars, bres>>

NextIOC ==
    \/ \E fi \in FlushInfos : CallForFlush(fi)
    \/ \E t \in IOContextTypes : CallFromType(t)
    \/ \E b \in BOOLEAN : CallBool(b)
    \/ \E mi \in MergeInfos : CallForMerge(mi)

(***************************************************************************)
(* Bit utilities.                                                          *)
(***************************************************************************)
\* The table of bits per byte; entry b of the Go slice is BYTE_COUNTS[b + 1].
BYTE_COUNTS ==
  <<
    0, 1, 1, 2, 1, 2, 2, 3, 1, 2, 2, 3, 2, 3, 3, 4,
    1, 2, 2, 3, 2, 3, 3, 4, 2, 3, 3, 4, 3, 4, 4, 5,
    1, 2, 2, 3, 2, 3, 3, 4, 2, 3, 3, 4, 3, 4, 4, 5,
    2, 3, 3, 4, 3, 4, 4, 5, 3, 4, 4, 5, 4, 5, 5, 6,
    1, 2, 2, 3, 2, 3, 3, 4, 2, 3, 3, 4, 3, 4, 4, 5,
    2, 3, 3, 4, 3, 4, 4, 5, 3, 4, 4, 5, 4, 5, 5, 6,
    2, 3, 3, 4, 3, 4, 4, 5, 3, 4, 4, 5, 4, 5, 5, 6,
    3, 4, 4, 5, 4, 5, 5, 6, 4, 5, 5, 6, 5, 6, 6, 7,
    1, 2, 2, 3, 2, 3, 3, 4, 2, 3, 3, 4, 3, 4, 4, 5,
    2, 3, 3, 4, 3, 4, 4, 5, 3, 4, 4, 5, 4, 5, 5, 6,
    2, 3, 3, 4, 3, 4, 4, 5, 3, 4, 4, 5, 4, 5, 5, 6,
    3, 4, 4, 5, 4, 5, 5, 6, 4, 5, 5, 6, 5, 6, 6, 7,
    2, 3, 3, 4, 3, 4, 4, 5, 3, 4, 4, 5, 4, 5, 5, 6,
    3, 4, 4, 5, 4, 5, 5, 6, 4, 5, 5, 6, 5, 6, 6, 7,
    3, 4, 4, 5, 4, 5, 5, 6, 4, 5, 5, 6, 5, 6, 6, 7,
    4, 5, 5, 6, 5, 6, 6, 7, 5, 6, 6, 7, 6, 7, 7, 8
  >>

\* Width of int64.  A word is the sequence of its bits, least significant
\* first: bit i of the word is w[i + 1], and w[WordBits] is the sign bit.
WordBits == 64

BitIdx == 1..WordBits

\* The word of a natural number below 2^31.
RECURSIVE NatBit(_, _)
NatBit(n, i) == IF i = 1 THEN n % 2 ELSE NatBit(n \div 2, i - 1)

FromNat(n) == [i \in BitIdx |-> IF i <= 31 THEN NatBit(n, i) ELSE 0]

\* Bitwise operators of int64.
BitXor(a, b) == [i \in BitIdx |-> (a[i] + b[i]) % 2]

BitAnd(a, b) == [i \in BitIdx |-> a[i] * b[i]]

BitNot(a) == [i \in BitIdx |-> 1 - a[i]]

\* l << k.
Shl(l, k) == [i \in BitIdx |-> IF i - k >= 1 THEN l[i - k] ELSE 0]

\* l >> k on int64: the sign bit is shifted in.
Sar(l, k) == [i \in BitIdx |-> IF i + k <= WordBits THEN l[i + k] ELSE l[WordBits]]

\* uint64(l) >> k: zeros are shifted in.
Shr(l, k) == [i \in BitIdx |-> IF i + k <= WordBits THEN l[i + k] ELSE 0]

\* a + 1 modulo 2^64: bit i flips when every lower bit is 1.
Inc(a) ==
    [i \in BitIdx |-> (a[i] + (IF \A j \in 1..(i - 1) : a[j] = 1 THEN 1 ELSE 0)) % 2]

\* -a in two's complement.
Neg(a) == Inc(BitNot(a))

FromInt(k) == IF k >= 0 THEN FromNat(k) ELSE Neg(FromNat(-k))

\* v > 0 on int64.
Positive(v) == v[WordBits] = 0 /\ \E i \in BitIdx : v[i] = 1

\* byte(v): the value of the low 8 bits.
ToByte(v) ==
    v[1] + 2 * v[2] + 4 * v[3] + 8 * v[4] + 16 * v[5] + 32 * v[6]
        + 64 * v[7] + 128 * v[8]

\* Mutant of BitCount: the byte masked with 0x7F.
BitCount_Mask7F(b) == BYTE_COUNTS[(b % 128) + 1]

\* BitCount(b): BYTE_COUNTS[b&0xFF].
BitCount(b) == BYTE_COUNTS[(b % 256) + 1]

\* The inner loop of pop_array on one word: while v > 0, count the low byte
\* and shift v right by 8.
RECURSIVE pop_word(_)
pop_word(v) ==
    IF Positive(v)
      THEN BitCount(ToByte(BitAnd(v, FromNat(255)))) + pop_word(Sar(v, 8))
      ELSE 0

\* pop_array(arr): the loop over the words.
RECURSIVE pop_array(_)
pop_array(arr) ==
    IF arr = <<>> THEN 0 ELSE pop_word(Head(arr)) + pop_array(Tail(arr))

ZigZagEncodeLong(l) == BitXor(Sar(l, 63), Shl(l, 1))

\* Mutant of ZigZagDecodeLong: the shift done on the signed value.
ZigZagDecodeLong_SignedShift(l) == BitXor(Sar(l, 1), Neg(BitAnd(l, FromNat(1))))

ZigZagDecodeLong(l) == BitXor(Shr(l, 1), Neg(BitAnd(l, FromNat(1))))

\* The word with only bit j set, and the word with the j lowest bits set.
Pow2(j) == [i \in BitIdx |-> IF i = j + 1 THEN 1 ELSE 0]

LowOnes(j) == [i \in BitIdx |-> IF i <= j THEN 1 ELSE 0]

MinInt64 == Pow2(WordBits - 1)

MaxInt64 == LowOnes(WordBits - 1)

\* The words tried: the small integers, every power of two, every run of low
\* ones, and the complements of these; they include 0, -1 and both extremes.
Words ==
    {FromInt(k) : k \in (-MaxSmall)..MaxSmall}
        \cup {Pow2(j) : j \in 0..(WordBits - 1)}
        \cup {LowOnes(j) : j \in 0..(WordBits - 1)}
        \cup {BitNot(Pow2(j)) : j \in 0..(WordBits - 1)}
        \cup {BitNot(LowOnes(j)) : j \in 0..(WordBits - 1)}

\* The words of the slices passed to pop_array.
PopWords ==
    {FromInt(0), FromInt(1), FromInt(255), FromInt(259), MaxInt64,
     FromInt(-1), FromInt(-2), MinInt64}

RECURSIVE SeqsUpTo(_, _)
SeqsUpTo(S, n) ==
    IF n = 0 THEN {<<>>}
    ELSE SeqsUpTo(S, n - 1)
            \cup {Append(a, w) : a \in SeqsUpTo(S, n - 1), w \in S}

\* No call has been made; each behaviour makes one call of one function.
InitBits == bres = [op |-> "none"]

CallBitCount(b) ==
    /\ bres.op = "none"
    /\ bres' = [op |-> "BitCount", b |-> b, n |-> BitCount(b)]
    /\ UNCHANGED <<lockVars, dirVars, sliceVars, ioc>>

CallPopArray(arr) ==
    /\ bres.op = "none"
    /\ bres' = [op |-> "pop_array", arr |-> arr, n |-> pop_array(arr)]
    /\ UNCHANGED <<lockVars, dirVars, sliceVars, ioc>>

\* ZigZagEncodeLong(v), then ZigZagDecodeLong of the result.
CallZigZag(v) ==
    /\ bres.op = "none"
    /\ bres' = [op |-> "ZigZag", v |-> v, enc |-> ZigZagEncodeLong(v),
                dec |-> ZigZagDecodeLong(ZigZagEncodeLong(v))]
    /\ UNCHANGED <<lockVars, dirVars, sliceVars, ioc>>

NextBits ==
    \/ \E b \in 0..255 : CallBitCount(b)
    \/ \E arr \in SeqsUpTo(PopWords, MaxWords) : CallPopArray(arr)
    \/ \E v \in Words : CallZigZag(v)

(***************************************************************************)
(* Specifications.                                                         *)
(***************************************************************************)
Init == InitLock /\ InitDir /\ InitSlice /\ InitIOC /\ InitBits

SpecLock == Init /\ [][NextLock]_vars

\* The call runs on the caller's thread: a loop pass that can run does run.
SpecLockFair == SpecLock /\ WF_vars(ObtainTimeout) /\ WF_vars(ObtainPoll)

SpecDir == Init /\ [][NextDir]_vars

SpecSlice == Init /\ [][NextSlice]_vars

SpecIOC == Init /\ [][NextIOC]_vars

SpecBits == Init /\ [][NextBits]_vars

(***************************************************************************)
(* Claims about LockImpl.ObtainWithin.                                     *)
(***************************************************************************)
Refuse == [ok |-> FALSE, err |-> Nil]

Grant == [ok |-> TRUE, err |-> Nil]

\* The backend refuses every Obtain: (false, nil).
AlwaysRefuses == \A i \in 1..MaxPolls : plan[i] = Refuse

\* The backend refuses its first k-1 Obtain calls and grants the k-th.
GrantsAt(k) == plan[k] = Grant /\ \A i \in 1..(k - 1) : plan[i] = Refuse

CeilDiv(a, b) == (a + b - 1) \div b

\* C1: a call with a timeout that is negative and not
\* LOCK_OBTAIN_WAIT_FOREVER ends in the invalid-argument panic with no
\* Obtain call made and no sleep, whatever Obtain would return.
C1_InvalidTimeoutBeforeObtain ==
    (lpc # "idle" /\ timeout < 0 /\ timeout # LOCK_OBTAIN_WAIT_FOREVER)
        => /\ lpc = "panicked"
           /\ lpanic = "invalid-argument"
           /\ nCalls = 0
           /\ slept = 0

\* C2: with a timeout t >= 0 and a backend that always refuses, the call
\* ends, not locked, with the timeout error, having made at least
\* ceil(t / LOCK_POOL_INTERVAL) Obtain calls and slept at most t ms.
C2_TimesOutAfterPolling ==
    (lpc = "loop" /\ timeout >= 0 /\ AlwaysRefuses)
        ~> /\ lpc = "done"
           /\ ~locked
           /\ err.kind = "timeout"
           /\ nCalls >= CeilDiv(timeout, LOCK_POOL_INTERVAL)
           /\ slept <= timeout

\* C2 witness: the call with t = 2500 has timed out after 3 Obtain calls.
C2_Witness ==
    /\ lpc = "done"
    /\ timeout = 2500
    /\ AlwaysRefuses
    /\ err.kind = "timeout"
    /\ nCalls = 3
    /\ slept = 2000

\* C3: a wait-forever call never reports a timeout, and against a backend
\* that grants its k-th Obtain after refusing k-1 it ends with (true, nil)
\* after exactly k Obtain calls.
C3_ForeverPollsUntilGranted ==
    /\ [](timeout = LOCK_OBTAIN_WAIT_FOREVER => err.kind # "timeout")
    /\ \A k \in 1..MaxPolls :
         (lpc # "idle" /\ timeout = LOCK_OBTAIN_WAIT_FOREVER /\ GrantsAt(k))
            ~> (lpc = "done" /\ locked /\ err = ErrNil /\ nCalls = k)

\* C3 witness: the wait-forever call was granted the lock on the 3rd Obtain.
C3_Witness ==
    /\ lpc = "done"
    /\ timeout = LOCK_OBTAIN_WAIT_FOREVER
    /\ GrantsAt(3)
    /\ locked
    /\ nCalls = 3
    /\ slept = 2 * LOCK_POOL_INTERVAL

\* The Obtain calls made so far that failed with an error.
FailedWithErr == {i \in 1..nCalls : ~plan[i].ok /\ plan[i].err # Nil}

Max(S) == CHOOSE x \in S : \A y \in S : y <= x

\* C4: when the call ends in the timeout and some failed Obtain returned an
\* error, the most recent such error is the lock's failureReason and is
\* wrapped in the timeout error.
C4_TimeoutWrapsLastError ==
    (lpc = "done" /\ err.kind = "timeout" /\ FailedWithErr # {})
        => /\ failureReason = plan[Max(FailedWithErr)].err
           /\ err.cause = plan[Max(FailedWithErr)].err

\* C5: the value the call returns carries, unchanged or wrapped, the error
\* of every Obtain call it made that returned one.
C5_NoBackendErrorSwallowed ==
    lpc = "done"
        => \A i \in 1..nCalls : plan[i].err # Nil => err.cause = plan[i].err

(***************************************************************************)
(* Claims about SlicedIndexInput.                                          *)
(***************************************************************************)
\* The window of slice record s lies within the file of its base reader.
WindowInBase(s) == s.fileOffset + s.length <= BaseLen

\* C6: readInternal of n bytes on a slice at cursor p, the slice's window
\* lying within the base: when p + n exceeds the slice's Length() it fails
\* with end-of-file without reading the base, otherwise it returns the
\* base's bytes at fileOffset+p .. fileOffset+p+n-1.
C6_ReadInternalWithinWindow ==
    (sres.via # 0 /\ WindowInBase(slices[sres.via]))
        => LET v == sres.via
               p == sres.viaStart
               n == sres.n
           IN  IF p + n > Length(slices, v)
                 THEN /\ sres.outcome = "eof"
                      /\ sres.baseCalls = 0
                      /\ sres.bytes = <<>>
                 ELSE /\ sres.outcome = "ok"
                      /\ sres.bytes =
                           [i \in 1..n |->
                              FileByte(slices[v].fileOffset + p + i - 1)]

\* C6 witness: a read at cursor 1 up to the end of a window that starts
\* after the file's first byte and ends before its last.
C6_Witness ==
    /\ sres.via # 0
    /\ sres.outcome = "ok"
    /\ sres.viaStart = 1
    /\ sres.viaStart + sres.n = slices[sres.via].length
    /\ slices[sres.via].fileOffset = 1
    /\ slices[sres.via].fileOffset + slices[sres.via].length < BaseLen

\* C7: a read through a slice, clone or original, uses the slice's own
\* cursor and base: within its window it returns the bytes at fileOffset
\* plus its own position.
C7_CloneReadsAtOwnCursor ==
    (/\ sres.slice # 0
     /\ WindowInBase(slices[sres.slice])
     /\ sres.start + sres.n <= slices[sres.slice].length)
        => /\ sres.outcome = "ok"
           /\ sres.via = sres.slice
           /\ sres.bytes =
                [i \in 1..sres.n |->
                   FileByte(slices[sres.slice].fileOffset + sres.start + i - 1)]

(***************************************************************************)
(* Claims about DirectoryImpl.                                             *)
(***************************************************************************)
\* C8: on a closed directory MakeLock, ClearLock, SetLockFactory and
\* CreateSlicer signal the closed-directory panic.
C8_ClosedDirectoryRefusesAll ==
    (dres.op \in {"MakeLock", "ClearLock", "SetLockFactory", "CreateSlicer"}
        /\ ~dres.wasOpen)
        => dres.outcome = "panic:this Directory is closed"

\* C9: on an open directory CreateSlicer calls OpenInput once and returns
\* its error or a slicer over the reader it opened.
C9_CreateSlicerOpensInput ==
    (dres.op = "CreateSlicer" /\ dres.wasOpen)
        => dres.outcome \in {"slicer", "error"} /\ dres.opens = 1

\* C10: SetLockFactory(nil) panics; after SetLockFactory(f) returns, the
\* directory's LockFactory() is f, and from then on the prefix of the
\* directory's factory equals the directory's LockID().
C10_LockPrefixIsLockID ==
    /\ (dres.op = "SetLockFactory" /\ dres.arg = Nil)
          => dres.outcome = "panic:assert fail"
    /\ (dres.op = "SetLockFactory" /\ dres.outcome = "ok")
          => LockFactory = dres.arg
    /\ LockFactory # Nil => LockPrefix(LockFactory) = LockID

(***************************************************************************)
(* Further claims about DirectoryImpl, FSLockFactory and ObtainWithin.     *)
(***************************************************************************)
\* C11: LockID() of one directory returns the same value on every call,
\* whatever SetLockFactory calls and factory changes happen in between.
C11_LockIDStable == [][LockID' = LockID]_vars

\* C17: with t >= 0 and a backend that never grants the lock, the call does
\* not report the timeout while it has slept less than t ms.
C17_NoTimeoutBeforeDeadline ==
    (/\ lpc = "done"
     /\ err.kind = "timeout"
     /\ timeout >= 0
     /\ \A i \in 1..MaxPolls : ~plan[i].ok)
        => slept >= timeout

\* C18: a setLockDir call on a factory right after a setLockDir call on it
\* that stored its value fails and leaves the factory as it was.
C18_LockDirSetOnce ==
    [][(/\ dres.op = "setLockDir"
        /\ dres.outcome = "ok"
        /\ dres'.op = "setLockDir"
        /\ dres'.arg = dres.arg)
          => /\ dres'.outcome = "panic:only once"
             /\ factories' = factories]_vars

\* C19: ObtainWithin never returns (false, nil), and when it returns
\* locked = true the last Obtain call it made returned true.
C19_ResultConsistent ==
    lpc = "done"
        => /\ ~locked => err # ErrNil
           /\ locked => plan[nCalls].ok

\* C19 witness: the call returned not locked after a poll that failed with
\* an error and a later timeout.
C19_Witness ==
    /\ lpc = "done"
    /\ ~locked
    /\ nCalls = 2
    /\ plan[2].err # Nil
    /\ err.kind = "timeout"

(***************************************************************************)
(* Further claim about slices of one slicer.                               *)
(***************************************************************************)
\* C20: a read through a slice opened with openSlice, which shares the
\* slicer's base reader with the other slices and with openFullSlice's
\* reader, returns within its window the bytes at fileOffset plus its own
\* position, wherever earlier reads left the base reader's cursor.
C20_SharedBaseReadsAtOwnCursor ==
    (/\ sres.slice # 0
     /\ sres.via = sres.slice
     /\ slices[sres.slice].base = openFullSlice
     /\ WindowInBase(slices[sres.slice])
     /\ sres.start + sres.n <= slices[sres.slice].length)
        => /\ sres.outcome = "ok"
           /\ sres.bytes =
                [i \in 1..sres.n |->
                   FileByte(SliceBasePos(slices[sres.slice], sres.start) + i - 1)]

\* C20 witness: the second slice of the slicer has read after the base
\* reader's cursor was left elsewhere, past the position the read needed.
C20_Witness ==
    /\ sres.slice = 2
    /\ sres.via = 2
    /\ slices[2].base = openFullSlice
    /\ slices[1].base = openFullSlice
    /\ sres.outcome = "ok"
    /\ sres.basePos > SliceBasePos(slices[2], sres.start)

(***************************************************************************)
(* Claims about the IOContext factories.                                   *)
(***************************************************************************)
IOCPanicked == ioc.panic # Nil /\ ioc.ctx = <<>>

\* The call returned a context that carries no merge and no flush info.
IOCReturnedBare ==
    /\ ioc.panic = Nil
    /\ Len(ioc.ctx) = 1
    /\ ioc.ctx[1].MergeInfo = NilPtr
    /\ ioc.ctx[1].FlushInfo = NilPtr

\* C12: NewIOContextForFlush(nil), NewIOContextForMerge(nil),
\* NewIOContextFromType(MERGE) and NewIOContextFromType(FLUSH) fail without
\* returning a value; NewIOContextFromType(READ), NewIOContextFromType(DEFAULT)
\* and NewIOContextBool(flag) return a context with no merge or flush info.
C12_FactoriesRejectInvalidPairings ==
    /\ (ioc.fn = "NewIOContextForFlush" /\ ioc.arg = NilPtr) => IOCPanicked
    /\ (ioc.fn = "NewIOContextForMerge" /\ ioc.arg = NilPtr) => IOCPanicked
    /\ (ioc.fn = "NewIOContextFromType"
          /\ ioc.arg \in {IO_CONTEXT_TYPE_MERGE, IO_CONTEXT_TYPE_FLUSH})
         => IOCPanicked
    /\ (ioc.fn = "NewIOContextFromType"
          /\ ioc.arg \in {IO_CONTEXT_TYPE_READ, IO_CONTEXT_TYPE_DEFAULT})
         => IOCReturnedBare /\ ioc.ctx[1].context = ioc.arg
    /\ ioc.fn = "NewIOContextBool"
         => /\ IOCReturnedBare
            /\ ioc.ctx[1].context = IO_CONTEXT_TYPE_READ
            /\ ioc.ctx[1].readOnce = ioc.arg

\* C12 witness: NewIOContextFromType(FLUSH) was called and panicked.
C12_Witness ==
    /\ ioc.fn = "NewIOContextFromType"
    /\ ioc.arg = IO_CONTEXT_TYPE_FLUSH
    /\ IOCPanicked

\* The invariant of an IOContext value: one of the four kinds, MergeInfo
\* present iff MERGE, FlushInfo present iff FLUSH.
IOContextValid(c) ==
    /\ c.context \in {IO_CONTEXT_TYPE_MERGE, IO_CONTEXT_TYPE_READ,
                      IO_CONTEXT_TYPE_FLUSH, IO_CONTEXT_TYPE_DEFAULT}
    /\ (c.MergeInfo # NilPtr) <=> (c.context = IO_CONTEXT_TYPE_MERGE)
    /\ (c.FlushInfo # NilPtr) <=> (c.context = IO_CONTEXT_TYPE_FLUSH)
    /\ ~(c.MergeInfo # NilPtr /\ c.FlushInfo # NilPtr)

\* C13: every context a factory returns, and each of the three
\* package-level contexts, satisfies the IOContext invariant.
C13_EveryContextValid ==
    /\ IOContextValid(IO_CONTEXT_DEFAULT)
    /\ IOContextValid(IO_CONTEXT_READONCE)
    /\ IOContextValid(IO_CONTEXT_READ)
    /\ \A i \in 1..Len(ioc.ctx) : IOContextValid(ioc.ctx[i])

(***************************************************************************)
(* Claims about the bit utilities.                                         *)
(***************************************************************************)
\* The number of 1-bits of a natural number.
RECURSIVE OnesOfNat(_)
OnesOfNat(n) == IF n = 0 THEN 0 ELSE (n % 2) + OnesOfNat(n \div 2)

\* The number of 1-bits among the first k bits of a word.
RECURSIVE OnesBelow(_, _)
OnesBelow(w, k) == IF k = 0 THEN 0 ELSE w[k] + OnesBelow(w, k - 1)

\* The number of 1-bits in all 8 bytes of every word of arr.
RECURSIVE OnesOfWords(_)
OnesOfWords(arr) ==
    IF arr = <<>> THEN 0
    ELSE OnesBelow(Head(arr), WordBits) + OnesOfWords(Tail(arr))

\* C14: ZigZagDecodeLong(ZigZagEncodeLong(v)) = v for every 64-bit word v.
C14_ZigZagRoundTrip == bres.op = "ZigZag" => bres.dec = bres.v

\* C14 witness: the round trip of the minimum value, which encodes to the
\* word of all ones.
C14_Witness ==
    /\ bres.op = "ZigZag"
    /\ bres.v = MinInt64
    /\ bres.enc = FromInt(-1)
    /\ bres.dec = MinInt64

\* C15: pop_array returns the number of 1-bits in all 8 bytes of every word
\* of the slice, negative words included.
C15_PopArrayCountsAllBits ==
    bres.op = "pop_array" => bres.n = OnesOfWords(bres.arr)

\* C16: for every byte b, BitCount(b) is the number of 1-bits of b.
C16_BitCountExact == bres.op = "BitCount" => bres.n = OnesOfNat(bres.b)

\* C16 witness: BitCount(255) returned 8.
C16_Witness == bres.op = "BitCount" /\ bres.b = 255 /\ bres.n = 8

====
